---- MODULE Spec2Model ----
(***************************************************************************)
(* The S3 bucket auto-cleanup custom resource of the video-search stack:   *)
(* a Lambda-backed custom resource that empties a bucket when its stack is *)
(* deleted and answers CloudFormation with SUCCESS or FAILED.              *)
(*                                                                         *)
(* One invocation runs lambda_handler: it checks RequestType, on Delete    *)
(* runs empty_bucket (step 1: list and delete object versions and delete   *)
(* markers, paginated; step 2: list and delete the remaining objects,      *)
(* paginated) and sends the response.  The function has a 900 second       *)
(* timeout: an invocation that needs more gateway calls than fit in it is  *)
(* ended by the platform.  Time is counted in gateway calls.               *)
(***************************************************************************)
EXTENDS Integers, Sequences, FiniteSets, TLC

\* ---------------------------------------------------------------- bounds
MaxEntries == 3        \* entries in the target when the model starts
PageSize == 2          \* entries per listing page (and per bulk delete)
MaxDeadline == 6       \* gateway calls that fit in the longest invocation
MaxInvocations == 2    \* invocations the orchestrator makes of one target
MaxAttempts == 2       \* attempts of one bulk delete that meets transient errors
NumTargets == 2        \* buckets of one stack drained by concurrent invocations

\* ------------------------------------------------------------ vocabulary
Intents == {"Create", "Update", "Delete"}
Kinds == {"object-version", "delete-marker", "plain-object"}
Phases == {"A", "B"}
Faults == {"AccessDenied", "InternalError"}
NoToken == 0

VARIABLES
    intent,       \* RequestType of the event
    exists,       \* whether the target bucket exists
    catalog,      \* catalog[i] is the kind of entry i; i is its listing position
    bucket,       \* the entries present in the target
    startBucket,  \* the entries present when this invocation began
    deadline,     \* gateway calls that fit in this invocation's timeout
    elapsed,      \* gateway calls made by this invocation
    invocation,   \* number of the invocation
    pc,           \* position of the handler
    phase,        \* step of empty_bucket: "A" versions and markers, "B" objects
    token,        \* continuation token carried to the next list call
    page,         \* entries of the page being deleted
    ended,        \* ended[p]: a page of phase p arrived without continuation token
    visits,       \* visits[i]: times entry i was returned by a list call
    nList,        \* nList[p]: list calls of phase p issued by this invocation
    nDel,         \* nDel[p]: bulk-delete calls of phase p issued by this invocation
    deleted,      \* entries deleted by this invocation
    failures,     \* keys whose deletion failed in this invocation
    faulted,      \* an unexpected exception was raised in this invocation
    signals,      \* CompletionSignals sent by this invocation
    pageLimit,    \* entries the gateway returns per page (at most PageSize)
    attempts,     \* attempts of the current batch that met a transient error
    retries,      \* transient errors met by this invocation's bulk deletes
    listDenied,   \* a list call of this invocation was refused (AccessDenied)
    prev,         \* status reported by the previous invocation, "none" at first
    \* concurrent invocations, one per custom resource of the stack
    request,      \* request[w]: bucket name and request id of invocation w
    cbucket,      \* cbucket[t]: the entries present in bucket t
    cpc,          \* cpc[w]: position of invocation w
    cphase,       \* cphase[w]: its step of empty_bucket
    ctoken,       \* ctoken[w]: its continuation token
    cpage,        \* cpage[w]: the page it is deleting
    cfailures,    \* cfailures[w]: keys whose deletion it saw fail
    cdeleted,     \* cdeleted[w]: <<bucket, entry>> pairs its delete calls removed
    csignals,     \* csignals[w]: the responses it sent
    \* one call of validate_video_file and of upload_to_s3
    ufile,        \* the file argument: NoFile or [size, type]
    validation,   \* what validate_video_file returned, NotValidated before
    presigned,    \* presignedData: whether presigned_url is set, and s3_path
    upc,          \* position of upload_to_s3
    chunk,        \* loop index i of the chunk loop
    puts,         \* the PUT requests sent, in order, each with its response
    progress,     \* last value passed to onProgress
    uresult,      \* value returned or message of the Error thrown
    \* the VideoUpload component
    file,           \* useState(null): the selected file
    uploadProgress, \* useState(0)
    uploadStatus,   \* useState('idle')
    s3Url,          \* useState('')
    error,          \* useState('')
    calls,          \* the calls of handle_upload so far, each with its position
    \* the VideoUpload component that waits for the processing of the video
    videoId,            \* useState('')
    processingProgress, \* useState(0)
    processingStatus,   \* useState(null): the last status response
    credentials,        \* s3_config holds an access key id and a secret key
    intervals,          \* intervals[c]: the setInterval timer of call c
    pending,            \* pending[c]: getVideoStatus requests not yet answered,
                        \* those sent before the one whose answer is shown
                        \* (older) and those sent after it (newer)
    lastPoll,           \* how the poll that finished last ended
    \* the login session (loginSession.js)
    storeKind,    \* "cookie" (document.cookie) or "sessionStorage"
    store,        \* store[name]: the value kept under a key, Null if none
    lastCall,     \* the last call of setLoggedIn or logout and its arguments
    \* the application shell (main.jsx, App.jsx, LoginScreen.jsx)
    boot,         \* main.jsx: how load() settled, how far the chain has run
    renders,      \* calls of ReactDOM.createRoot(...).render so far
    path,         \* location.pathname
    screen,       \* what the router shows: none, pending, login, landing
    redirects,    \* <Navigate> elements rendered since the last navigation
    form,         \* LoginScreen: isSubmitting and error
    logins        \* calls of loginBackendUser not yet settled

\* The state of the bucket-drain worker.
workerVars == <<intent, exists, catalog, bucket, startBucket, deadline, elapsed,
                invocation, pc, phase, token, page, ended, visits, nList, nDel,
                deleted, failures, faulted, signals, pageLimit, attempts,
                retries, listDenied, prev>>

\* The state outside the single worker, which its steps leave alone.
concVars == <<request, cbucket, cpc, cphase, ctoken, cpage, cfailures,
              cdeleted, csignals>>

fnVars == <<ufile, validation, presigned, upc, chunk, puts, progress, uresult>>

uiVars == <<file, uploadProgress, uploadStatus, s3Url, error, calls>>

procVars ==
    <<videoId, processingProgress, processingStatus, credentials, intervals,
      pending, lastPoll>>

sessVars == <<storeKind, store, lastCall>>

appVars == <<boot, renders, path, screen, redirects, form, logins>>

shellVars == <<sessVars, appVars>>

\* The state of the browser application.
frontendVars == <<fnVars, uiVars, procVars, shellVars>>

outsideWorker == <<concVars, frontendVars>>

vars == <<workerVars, concVars, frontendVars>>

\* ---------------------------------------------------------------- helpers
Max(S) == CHOOSE x \in S : \A y \in S : y <= x

Min(S) == CHOOSE x \in S : \A y \in S : x <= y

\* The step of empty_bucket that lists entries of kind k.
PhaseOf(k) == IF k = "plain-object" THEN "B" ELSE "A"

\* The entries of S that the list call of phase ph enumerates.
Listing(S, ph) == {i \in S : PhaseOf(catalog[i]) = ph}

\* The first n entries of S in listing order.
RECURSIVE FirstN(_, _)
FirstN(S, n) ==
    IF n = 0 \/ S = {} THEN {}
    ELSE LET m == Min(S) IN {m} \cup FirstN(S \ {m}, n - 1)

\* The entries of phase ph after the continuation token tok.
Rest(S, ph, tok) == {i \in Listing(S, ph) : i > tok}

PageEntries_Oversize(S, ph, tok) == FirstN(Rest(S, ph, tok), PageSize + 1)

PageEntries_Stale(S, ph, tok) == FirstN(Rest(DOMAIN catalog, ph, tok), pageLimit)

\* One page of the listing of phase ph, resumed after token tok.
PageEntries(S, ph, tok) == FirstN(Rest(S, ph, tok), pageLimit)

PageToken_Dropped(S, ph, tok) == NoToken

\* The continuation token of that page: absent when the listing is exhausted.
PageToken(S, ph, tok) ==
    IF Rest(S, ph, tok) = PageEntries(S, ph, tok) THEN NoToken
    ELSE Max(PageEntries(S, ph, tok))

Classify_DrainOnUpdate(i) == IF i = "Create" THEN "skip" ELSE "drain"

\* lambda_handler's check of RequestType.
Classify(i) == IF i = "Delete" THEN "drain" ELSE "skip"

NextPhase_Interleaved(ph, tok) == "B"

\* The phase of the next list call, after a page of phase ph with token tok.
NextPhase(ph, tok) == IF tok # NoToken THEN ph ELSE "B"

NextPc_SkipIfVersioned(ph, tok) ==
    IF tok # NoToken THEN "list"
    ELSE IF ph = "A" /\ Listing(startBucket, "A") = {} THEN "list" ELSE "report"

NextPc_SkipObjects(ph, tok) == IF tok # NoToken THEN "list" ELSE "report"

\* Where empty_bucket goes after a page of phase ph with token tok.
NextPc(ph, tok) ==
    IF tok # NoToken THEN "list"
    ELSE IF ph = "A" THEN "list" ELSE "report"

NotFoundStatus_Failed == "FAILED"

\* "Bucket does not exist, skipping": the response for an absent bucket.
NotFoundStatus == "SUCCESS"

FaultStatus_Success == "SUCCESS"

\* "Error processing bucket: {error}": the response after an exception.
FaultStatus == "FAILED"

\* The outcomes of one bulk delete: the keys of the batch that fail.
DeleteOutcomes(batch) == SUBSET batch

RetryAllowed_Unbounded(a) == TRUE

\* Whether a batch that met its (a+1)-th transient error is tried again.
RetryAllowed(a) == a + 1 < MaxAttempts

FinalStatus_IgnoreFailures(f) == "SUCCESS"

\* Terminal status of a drain that ran to its end with failed keys f.
FinalStatus(f) == IF f = {} THEN "SUCCESS" ELSE "FAILED"

\* Reason of that signal.
FinalReason(f) == IF f = {} THEN "emptied" ELSE "keys-failed"

Signal(st, why) ==
    [status |-> st, reason |-> why, deleted |-> deleted,
     failed |-> Cardinality(failures)]

Zero == [p \in Phases |-> 0]

\* No concurrent invocation is running.
ConcIdle ==
    /\ request = <<>>
    /\ cbucket = <<>>
    /\ cpc = <<>>
    /\ cphase = <<>>
    /\ ctoken = <<>>
    /\ cpage = <<>>
    /\ cfailures = <<>>
    /\ cdeleted = <<>>
    /\ csignals = <<>>

\* No file: what a file variable holds when it is null.
NoFile == [null |-> TRUE, size |-> 0, type |-> ""]

\* validate_video_file has not returned yet.
NotValidated == [valid |-> FALSE, error |-> "(not called)"]

\* No presigned data.
NoData == [url |-> FALSE, s3_path |-> ""]

\* upload_to_s3 and validate_video_file have not been called.
FnIdle ==
    /\ ufile = NoFile
    /\ validation = NotValidated
    /\ presigned = NoData
    /\ upc = "idle"
    /\ chunk = 0
    /\ puts = <<>>
    /\ progress = 0
    /\ uresult = "none"

\* The VideoUpload component is not mounted.
UiIdle ==
    /\ file = NoFile
    /\ uploadProgress = 0
    /\ uploadStatus = "idle"
    /\ s3Url = ""
    /\ error = ""
    /\ calls = <<>>

\* processingStatus is null.
NoStatus == [status |-> "", progress |-> 0, error |-> ""]

\* No upload has been started in the component that polls.
ProcIdle ==
    /\ videoId = ""
    /\ processingProgress = 0
    /\ processingStatus = NoStatus
    /\ credentials = FALSE
    /\ intervals = <<>>
    /\ pending = <<>>
    /\ lastPoll = "none"

\* null, undefined or a key that is not stored. Strings are sequences of
\* characters, so that this is none of them.
Null == <<"null">>

STORAGE_KEY == "video_search_ui_logged_in"

EMAIL_KEY == "video_search_ui_email"

TOKEN_KEY == "video_search_ui_access_token"

Keys == {STORAGE_KEY, EMAIL_KEY, TOKEN_KEY}

EmptyStore == [k \in Keys |-> Null]

NoCall == [op |-> "none", email |-> Null, token |-> Null]

\* Nobody has logged in.
SessIdle ==
    /\ storeKind = "cookie"
    /\ store = EmptyStore
    /\ lastCall = NoCall

NoForm == [isSubmitting |-> FALSE, error |-> ""]

NotLoaded == [load |-> "off", chain |-> "off"]

\* The page has not been loaded.
AppIdle ==
    /\ boot = NotLoaded
    /\ renders = 0
    /\ path = "/"
    /\ screen = "none"
    /\ redirects = 0
    /\ form = NoForm
    /\ logins = <<>>

ShellIdle == SessIdle /\ AppIdle

\* The browser application is not running.
FrontendIdle == FnIdle /\ UiIdle /\ ProcIdle /\ ShellIdle

\* ------------------------------------------------------------------ Init
Catalogs == UNION {[1..n -> Kinds] : n \in 0..MaxEntries}

Init ==
    /\ intent \in Intents
    /\ exists \in BOOLEAN
    /\ catalog \in Catalogs
    /\ bucket = IF exists THEN DOMAIN catalog ELSE {}
    /\ startBucket = bucket
    /\ deadline \in 1..MaxDeadline
    /\ elapsed = 0
    /\ invocation = 1
    /\ pc = "start"
    /\ phase = "A"
    /\ token = NoToken
    /\ page = {}
    /\ ended = [p \in Phases |-> FALSE]
    /\ visits = [i \in DOMAIN catalog |-> 0]
    /\ nList = Zero
    /\ nDel = Zero
    /\ deleted = 0
    /\ failures = {}
    /\ faulted = FALSE
    /\ signals = <<>>
    /\ pageLimit \in 1..PageSize
    /\ attempts = 0
    /\ retries = 0
    /\ listDenied = FALSE
    /\ prev = "none"
    /\ ConcIdle
    /\ FrontendIdle

\* --------------------------------------------------------------- actions
\* lambda_handler, Create/Update: send SUCCESS, no action.
SkipRequest ==
    /\ pc = "start"
    /\ Classify(intent) = "skip"
    /\ signals' = Append(signals, Signal("SUCCESS", "no-action"))
    /\ pc' = "done"
    /\ UNCHANGED <<intent, exists, catalog, bucket, startBucket, deadline,
                   elapsed, invocation, phase, token, page, ended, visits,
                   nList, nDel, deleted, failures, faulted, pageLimit,
                   attempts, retries, listDenied, prev, outsideWorker>>

\* lambda_handler, Delete: enter empty_bucket(bucket_name).
StartDrain ==
    /\ pc = "start"
    /\ Classify(intent) = "drain"
    /\ pc' = "list"
    /\ phase' = "A"
    /\ token' = NoToken
    /\ UNCHANGED <<intent, exists, catalog, bucket, startBucket, deadline,
                   elapsed, invocation, page, ended, visits, nList, nDel,
                   deleted, failures, faulted, signals, pageLimit, attempts,
                   retries, listDenied, prev, outsideWorker>>

\* A list call on a bucket that does not exist: skip and send SUCCESS.
ListNotFound ==
    /\ pc = "list"
    /\ elapsed < deadline
    /\ ~exists
    /\ elapsed' = elapsed + 1
    /\ nList' = [nList EXCEPT ![phase] = @ + 1]
    /\ signals' = Append(signals, Signal(NotFoundStatus, "absent"))
    /\ pc' = "done"
    /\ UNCHANGED <<intent, exists, catalog, bucket, startBucket, deadline,
                   invocation, phase, token, page, ended, visits, nDel,
                   deleted, failures, faulted, pageLimit, attempts, retries,
                   listDenied, prev, outsideWorker>>

\* A list call of the current phase: one page and its continuation token.
ListPage ==
    /\ pc = "list"
    /\ elapsed < deadline
    /\ exists
    /\ LET p == PageEntries(bucket, phase, token)
           t == PageToken(bucket, phase, token)
       IN /\ page' = p
          /\ token' = t
          /\ visits' = [i \in DOMAIN visits |->
                            IF i \in p THEN visits[i] + 1 ELSE visits[i]]
          /\ ended' = [ended EXCEPT ![phase] = (t = NoToken)]
          /\ IF p # {}
             THEN pc' = "delete" /\ phase' = phase
             ELSE pc' = NextPc(phase, t) /\ phase' = NextPhase(phase, t)
    /\ elapsed' = elapsed + 1
    /\ nList' = [nList EXCEPT ![phase] = @ + 1]
    /\ UNCHANGED <<intent, exists, catalog, bucket, startBucket, deadline,
                   invocation, nDel, deleted, failures, faulted, signals,
                   pageLimit, attempts, retries, listDenied, prev,
                   outsideWorker>>

\* A list call refused with AccessDenied: empty_bucket cannot enumerate, the
\* exception reaches the handler and is answered with FAILED.
ListDenied ==
    /\ pc = "list"
    /\ elapsed < deadline
    /\ exists
    /\ elapsed' = elapsed + 1
    /\ nList' = [nList EXCEPT ![phase] = @ + 1]
    /\ signals' = Append(signals, Signal(FaultStatus, "AccessDenied"))
    /\ faulted' = TRUE
    /\ listDenied' = TRUE
    /\ pc' = "done"
    /\ UNCHANGED <<intent, exists, catalog, bucket, startBucket, deadline,
                   invocation, phase, token, page, ended, visits, nDel,
                   deleted, failures, pageLimit, attempts, retries, prev,
                   outsideWorker>>

\* "Deleting batch of X objects": one bulk delete of the page just listed.
\* Keys refused with a permission error are recorded and not tried again.
DeleteBatch ==
    /\ pc = "delete"
    /\ elapsed < deadline
    /\ \E f \in DeleteOutcomes(page) :
          /\ bucket' = bucket \ (page \ f)
          /\ failures' = failures \cup f
          /\ deleted' = deleted + Cardinality(page \ f)
    /\ elapsed' = elapsed + 1
    /\ nDel' = [nDel EXCEPT ![phase] = @ + 1]
    /\ page' = {}
    /\ attempts' = 0
    /\ pc' = NextPc(phase, token)
    /\ phase' = NextPhase(phase, token)
    /\ UNCHANGED <<intent, exists, catalog, startBucket, deadline, invocation,
                   token, ended, visits, nList, faulted, signals, pageLimit,
                   retries, listDenied, prev, outsideWorker>>

\* A bulk delete that meets a transient gateway error (throttling, 5xx): the
\* batch is tried again, or, the attempts used up, its keys are recorded as
\* failures and the drain goes on.
DeleteThrottled ==
    /\ pc = "delete"
    /\ elapsed < deadline
    /\ elapsed' = elapsed + 1
    /\ nDel' = [nDel EXCEPT ![phase] = @ + 1]
    /\ retries' = retries + 1
    /\ IF RetryAllowed(attempts)
       THEN /\ attempts' = attempts + 1
            /\ UNCHANGED <<page, failures, pc, phase>>
       ELSE /\ attempts' = 0
            /\ failures' = failures \cup page
            /\ page' = {}
            /\ pc' = NextPc(phase, token)
            /\ phase' = NextPhase(phase, token)
    /\ UNCHANGED <<intent, exists, catalog, bucket, startBucket, deadline,
                   invocation, token, ended, visits, nList, deleted, faulted,
                   signals, pageLimit, listDenied, prev, outsideWorker>>

\* empty_bucket returned: send the response to CloudFormation.
SendResponse ==
    /\ pc = "report"
    /\ signals' = Append(signals, Signal(FinalStatus(failures), FinalReason(failures)))
    /\ pc' = "done"
    /\ UNCHANGED <<intent, exists, catalog, bucket, startBucket, deadline,
                   elapsed, invocation, phase, token, page, ended, visits,
                   nList, nDel, deleted, failures, faulted, pageLimit,
                   attempts, retries, listDenied, prev, outsideWorker>>

\* An exception raised before the response: logged and answered with FAILED.
UnexpectedFault ==
    /\ pc \in {"start", "list", "delete"}
    /\ \E d \in Faults :
          signals' = Append(signals, Signal(FaultStatus, d))
    /\ faulted' = TRUE
    /\ pc' = "done"
    /\ UNCHANGED <<intent, exists, catalog, bucket, startBucket, deadline,
                   elapsed, invocation, phase, token, page, ended, visits,
                   nList, nDel, deleted, failures, pageLimit, attempts,
                   retries, listDenied, prev, outsideWorker>>

\* The function times out: the platform ends it while a gateway call that
\* no longer fits in the timeout is pending.
Timeout ==
    /\ pc \in {"list", "delete"}
    /\ elapsed >= deadline
    /\ pc' = "killed"
    /\ UNCHANGED <<intent, exists, catalog, bucket, startBucket, deadline,
                   elapsed, invocation, phase, token, page, ended, visits,
                   nList, nDel, deleted, failures, faulted, signals,
                   pageLimit, attempts, retries, listDenied, prev,
                   outsideWorker>>

\* The orchestrator, having received a signal, invokes the worker again on
\* the same target; nothing of the previous invocation is kept.
Reinvoke ==
    /\ pc = "done"
    /\ invocation < MaxInvocations
    /\ invocation' = invocation + 1
    /\ prev' = signals[1].status
    /\ startBucket' = bucket
    /\ elapsed' = 0
    /\ pc' = "start"
    /\ phase' = "A"
    /\ token' = NoToken
    /\ page' = {}
    /\ ended' = [p \in Phases |-> FALSE]
    /\ visits' = [i \in DOMAIN catalog |-> 0]
    /\ nList' = Zero
    /\ nDel' = Zero
    /\ deleted' = 0
    /\ failures' = {}
    /\ faulted' = FALSE
    /\ signals' = <<>>
    /\ attempts' = 0
    /\ retries' = 0
    /\ listDenied' = FALSE
    /\ UNCHANGED <<intent, exists, catalog, bucket, deadline, pageLimit,
                   outsideWorker>>

Next ==
    \/ SkipRequest
    \/ StartDrain
    \/ ListNotFound
    \/ ListPage
    \/ ListDenied
    \/ DeleteBatch
    \/ DeleteThrottled
    \/ SendResponse
    \/ UnexpectedFault
    \/ Timeout
    \/ Reinvoke

Spec == Init /\ [][Next]_vars

\* The handler runs to its end or to its timeout; the orchestrator acts on
\* every signal it receives.
FairSpec == Spec /\ WF_vars(Next)

\* ------------------------------------------- concurrent invocations (stack)
\* One invocation per custom resource of the stack, each with its own bucket.
Workers == 1..NumTargets

Targets == 1..NumTargets

TargetOf_Shared(w) == request[1].target

\* The bucket invocation w lists and deletes: the bucket name of its event.
TargetOf(w) == request[w].target

\* The response of invocation w echoes the identifiers of its own event.
CSignal(w, st) ==
    [status |-> st, target |-> request[w].target, corr |-> request[w].corr]

\* The single worker is not running.
WorkerIdle ==
    /\ intent = "Delete"
    /\ exists = TRUE
    /\ bucket = {}
    /\ startBucket = {}
    /\ deadline = 1
    /\ elapsed = 0
    /\ invocation = 1
    /\ pc = "idle"
    /\ phase = "A"
    /\ token = NoToken
    /\ page = {}
    /\ ended = [p \in Phases |-> FALSE]
    /\ visits = <<>>
    /\ nList = Zero
    /\ nDel = Zero
    /\ deleted = 0
    /\ failures = {}
    /\ faulted = FALSE
    /\ signals = <<>>
    /\ attempts = 0
    /\ retries = 0
    /\ listDenied = FALSE
    /\ prev = "none"

\* The worker state the concurrent invocations do not use.
outsideConc ==
    <<intent, exists, bucket, startBucket, deadline, elapsed, invocation, pc,
      phase, token, page, ended, visits, nList, nDel, deleted, failures,
      faulted, signals, attempts, retries, listDenied, prev, frontendVars>>

ConcInit ==
    /\ WorkerIdle
    /\ FrontendIdle
    /\ catalog \in Catalogs
    /\ pageLimit = PageSize
    /\ request = [w \in Workers |-> [target |-> w, corr |-> w + NumTargets]]
    /\ cbucket = [t \in Targets |-> DOMAIN catalog]
    /\ cpc = [w \in Workers |-> "start"]
    /\ cphase = [w \in Workers |-> "A"]
    /\ ctoken = [w \in Workers |-> NoToken]
    /\ cpage = [w \in Workers |-> {}]
    /\ cfailures = [w \in Workers |-> {}]
    /\ cdeleted = [w \in Workers |-> {}]
    /\ csignals = [w \in Workers |-> <<>>]

\* lambda_handler of invocation w, RequestType Delete: enter empty_bucket.
CStartDrain(w) ==
    /\ cpc[w] = "start"
    /\ cpc' = [cpc EXCEPT ![w] = "list"]
    /\ UNCHANGED <<catalog, pageLimit, request, cbucket, cphase, ctoken, cpage,
                   cfailures, cdeleted, csignals, outsideConc>>

\* A list call of invocation w on its bucket.
CListPage(w) ==
    /\ cpc[w] = "list"
    /\ LET p == PageEntries(cbucket[TargetOf(w)], cphase[w], ctoken[w])
           t == PageToken(cbucket[TargetOf(w)], cphase[w], ctoken[w])
       IN /\ cpage' = [cpage EXCEPT ![w] = p]
          /\ ctoken' = [ctoken EXCEPT ![w] = t]
          /\ IF p # {}
             THEN cpc' = [cpc EXCEPT ![w] = "delete"] /\ cphase' = cphase
             ELSE /\ cpc' = [cpc EXCEPT ![w] = NextPc(cphase[w], t)]
                  /\ cphase' = [cphase EXCEPT ![w] = NextPhase(cphase[w], t)]
    /\ UNCHANGED <<catalog, pageLimit, request, cbucket, cfailures, cdeleted,
                   csignals, outsideConc>>

\* A bulk delete of invocation w on its bucket.
CDeleteBatch(w) ==
    /\ cpc[w] = "delete"
    /\ \E f \in DeleteOutcomes(cpage[w]) :
          /\ cbucket' = [cbucket EXCEPT ![TargetOf(w)] = @ \ (cpage[w] \ f)]
          /\ cfailures' = [cfailures EXCEPT ![w] = @ \cup f]
          /\ cdeleted' = [cdeleted EXCEPT ![w] =
                             @ \cup {<<TargetOf(w), e>> : e \in cpage[w] \ f}]
    /\ cpage' = [cpage EXCEPT ![w] = {}]
    /\ cpc' = [cpc EXCEPT ![w] = NextPc(cphase[w], ctoken[w])]
    /\ cphase' = [cphase EXCEPT ![w] = NextPhase(cphase[w], ctoken[w])]
    /\ UNCHANGED <<catalog, pageLimit, request, ctoken, csignals, outsideConc>>

\* Invocation w sends its response.
CSendResponse(w) ==
    /\ cpc[w] = "report"
    /\ csignals' = [csignals EXCEPT ![w] =
                       Append(@, CSignal(w, FinalStatus(cfailures[w])))]
    /\ cpc' = [cpc EXCEPT ![w] = "done"]
    /\ UNCHANGED <<catalog, pageLimit, request, cbucket, cphase, ctoken, cpage,
                   cfailures, cdeleted, outsideConc>>

ConcNext ==
    \E w \in Workers :
        \/ CStartDrain(w)
        \/ CListPage(w)
        \/ CDeleteBatch(w)
        \/ CSendResponse(w)

\* The invocations of one stack deletion, their gateway calls interleaved.
ConcSpec == ConcInit /\ [][ConcNext]_vars

\* ------------------------------------------ s3Upload (browser, utilities)
\* The template's custom resources are not running.
BackendIdle ==
    /\ WorkerIdle
    /\ catalog = <<>>
    /\ pageLimit = PageSize
    /\ ConcIdle

backendVars == <<workerVars, concVars>>

outsideFn == <<backendVars, uiVars, procVars, shellVars>>

outsideUi == <<backendVars, fnVars, procVars, shellVars>>

outsideProc == <<backendVars, fnVars, shellVars>>

outsideSess == <<backendVars, fnVars, uiVars, procVars, appVars>>

outsideApp == <<backendVars, fnVars, uiVars, procVars>>

max_size == 500 * 1024 * 1024

allowed_types == {"video/mp4", "video/webm", "video/ogg", "video/quicktime"}

\* file.size < 100 * 1024 * 1024 selects the simple PUT.
simple_limit == 100 * 1024 * 1024

chunkSize == 5 * 1024 * 1024

FileTypes == allowed_types \cup {"video/x-msvideo", "image/png", ""}

FileSizes ==
    {0, 1, simple_limit - 1, simple_limit, simple_limit + 1,
     simple_limit + chunkSize, max_size - 1, max_size, max_size + 1}

Files == [null : {FALSE}, size : FileSizes, type : FileTypes]

validate_video_file_SizeInclusive(f) ==
    IF f.null THEN [valid |-> FALSE, error |-> "No file selected"]
    ELSE IF f.size >= max_size
         THEN [valid |-> FALSE, error |-> "File size exceeds 500MB limit"]
    ELSE IF f.type \notin allowed_types
         THEN [valid |-> FALSE,
               error |-> "Invalid file type. Please upload MP4, WebM, OGG, or MOV"]
    ELSE [valid |-> TRUE, error |-> ""]

\* validate_video_file(file); { valid: true } carries no error, here "".
validate_video_file(f) ==
    IF f.null THEN [valid |-> FALSE, error |-> "No file selected"]
    ELSE IF f.size > max_size
         THEN [valid |-> FALSE, error |-> "File size exceeds 500MB limit"]
    ELSE IF f.type \notin allowed_types
         THEN [valid |-> FALSE,
               error |-> "Invalid file type. Please upload MP4, WebM, OGG, or MOV"]
    ELSE [valid |-> TRUE, error |-> ""]

\* Math.ceil(file.size / chunkSize)
totalChunks(size) == (size + chunkSize - 1) \div chunkSize

ChunkEnd_NoMin(start, size) == start + chunkSize

\* Math.min(start + chunkSize, file.size)
ChunkEnd(start, size) ==
    IF start + chunkSize < size THEN start + chunkSize ELSE size

\* Math.round(((i + 1) / totalChunks) * 100)
ChunkProgress(i, total) == (200 * (i + 1) + total) \div (2 * total)

\* What a PUT to the presigned URL comes back with: response.ok, a response
\* that is not ok, or a rejected fetch.
Responses == {"ok", "not-ok", "rejected"}

PresignedData == [url : BOOLEAN, s3_path : {"s3://videos/clip.mp4"}]

UploadInit ==
    /\ BackendIdle
    /\ UiIdle
    /\ ProcIdle
    /\ ShellIdle
    /\ ufile \in Files \cup {NoFile}
    /\ validation = NotValidated
    /\ presigned \in PresignedData
    /\ upc = "idle"
    /\ chunk = 0
    /\ puts = <<>>
    /\ progress = 0
    /\ uresult = "none"

\* validate_video_file(file)
ValidateFile ==
    /\ validation = NotValidated
    /\ validation' = validate_video_file(ufile)
    /\ UNCHANGED <<ufile, presigned, upc, chunk, puts, progress, uresult,
                   outsideFn>>

\* upload_to_s3: the check of presigned_url, before the try block.
UploadCall ==
    /\ upc = "idle"
    /\ IF presigned.url
       THEN upc' = "read" /\ uresult' = uresult
       ELSE upc' = "thrown" /\ uresult' = "Presigned URL not provided"
    /\ UNCHANGED <<ufile, validation, presigned, chunk, puts, progress,
                   outsideFn>>

\* await file.arrayBuffer(), then the choice of simple or chunked upload.
ReadBuffer ==
    /\ upc = "read"
    /\ \E read \in BOOLEAN :
          IF read /\ ~ufile.null
          THEN /\ upc' = IF ufile.size < simple_limit THEN "simple" ELSE "chunks"
               /\ progress' = IF ufile.size < simple_limit THEN 50 ELSE progress
               /\ uresult' = uresult
          ELSE /\ upc' = "thrown"
               /\ progress' = progress
               /\ uresult' = "Failed to upload to S3: read"
    /\ UNCHANGED <<ufile, validation, presigned, chunk, puts, outsideFn>>

\* The single PUT of a file smaller than 100MB.
SimplePut ==
    /\ upc = "simple"
    /\ \E r \in Responses :
          /\ puts' = Append(puts, [start |-> 0, end |-> ufile.size,
                                   ranged |-> FALSE, resp |-> r])
          /\ IF r = "ok"
             THEN /\ progress' = 100
                  /\ upc' = "returned"
                  /\ uresult' = presigned.s3_path
             ELSE /\ progress' = progress
                  /\ upc' = "thrown"
                  /\ uresult' = "Failed to upload to S3: " \o r
    /\ UNCHANGED <<ufile, validation, presigned, chunk, outsideFn>>

\* One iteration of the chunk loop; after the last chunk, return s3_path.
ChunkPut ==
    /\ upc = "chunks"
    /\ chunk < totalChunks(ufile.size)
    /\ \E r \in Responses :
          LET start == chunk * chunkSize
              end == ChunkEnd(start, ufile.size)
          IN /\ puts' = Append(puts, [start |-> start, end |-> end,
                                      ranged |-> TRUE, resp |-> r])
             /\ IF r = "ok"
                THEN /\ chunk' = chunk + 1
                     /\ progress' = ChunkProgress(chunk, totalChunks(ufile.size))
                     /\ IF chunk + 1 < totalChunks(ufile.size)
                        THEN upc' = upc /\ uresult' = uresult
                        ELSE upc' = "returned" /\ uresult' = presigned.s3_path
                ELSE /\ chunk' = chunk
                     /\ progress' = progress
                     /\ upc' = "thrown"
                     /\ uresult' = "Failed to upload to S3: " \o r
    /\ UNCHANGED <<ufile, validation, presigned, outsideFn>>

UploadNext ==
    \/ ValidateFile
    \/ UploadCall
    \/ ReadBuffer
    \/ SimplePut
    \/ ChunkPut

\* One call of validate_video_file and one of upload_to_s3 on any file.
UploadSpec == UploadInit /\ [][UploadNext]_vars

\* ------------------------------------ VideoUpload (presigned URL upload)
MaxUploads == 2

UiFiles ==
    [null : {FALSE}, size : {1, simple_limit, max_size + 1},
     type : {"video/mp4", "image/png"}]

\* The messages of the errors getPresignedUploadUrl rejects with.
PresignErrors == {"Failed to generate presigned URL: 500", ""}

IdleViewRendered_Always(st) == TRUE

\* The branch of the render that holds the file input and the upload button.
IdleViewRendered(st) == st = "idle" \/ st = "error"

\* err.message || 'Failed to upload video'
ErrorText(msg) == IF msg = "" THEN "Failed to upload video" ELSE msg

NewCall(f) ==
    [pc |-> "presign", f |-> f, data |-> NoData, chunk |-> 0,
     presignOk |-> FALSE, uploadOk |-> FALSE]

InFlight == {c \in DOMAIN calls : calls[c].pc \notin {"done", "failed"}}

UiInit ==
    /\ BackendIdle
    /\ FnIdle
    /\ UiIdle
    /\ ProcIdle
    /\ ShellIdle

handle_file_select(f) ==
    /\ IdleViewRendered(uploadStatus)
    /\ LET v == validate_video_file(f)
       IN IF ~v.valid
          THEN /\ error' = v.error
               /\ file' = NoFile
               /\ uploadStatus' = uploadStatus
          ELSE /\ file' = f
               /\ error' = ""
               /\ uploadStatus' = "idle"
    /\ UNCHANGED <<uploadProgress, s3Url, calls, outsideUi>>

\* handle_upload up to its first await.
handle_upload ==
    /\ IdleViewRendered(uploadStatus)
    /\ ~file.null
    /\ Len(calls) < MaxUploads
    /\ uploadStatus' = "uploading"
    /\ error' = ""
    /\ calls' = Append(calls, NewCall(file))
    /\ UNCHANGED <<file, uploadProgress, s3Url, outsideUi>>

\* The catch block of handle_upload.
UploadFailed(c, msg, ok) ==
    /\ error' = ErrorText(msg)
    /\ uploadStatus' = "error"
    /\ calls' = [calls EXCEPT ![c].pc = "failed", ![c].presignOk = ok]

\* getPresignedUploadUrl resolved; upload_to_s3 starts, or throws at once.
PresignResolved(c) ==
    /\ calls[c].pc = "presign"
    /\ \E d \in PresignedData :
          IF d.url
          THEN /\ calls' = [calls EXCEPT ![c].pc = "read", ![c].data = d,
                                         ![c].presignOk = TRUE]
               /\ UNCHANGED <<error, uploadStatus>>
          ELSE UploadFailed(c, "Presigned URL not provided", TRUE)
    /\ UNCHANGED <<file, uploadProgress, s3Url, outsideUi>>

PresignRejected(c) ==
    /\ calls[c].pc = "presign"
    /\ \E msg \in PresignErrors : UploadFailed(c, msg, FALSE)
    /\ UNCHANGED <<file, uploadProgress, s3Url, outsideUi>>

\* upload_to_s3: file.arrayBuffer() and the choice of the kind of upload.
BufferRead(c) ==
    /\ calls[c].pc = "read"
    /\ \E read \in BOOLEAN :
          IF read
          THEN /\ calls' = [calls EXCEPT ![c].pc =
                              IF calls[c].f.size < simple_limit
                              THEN "simple" ELSE "chunks"]
               /\ uploadProgress' = IF calls[c].f.size < simple_limit
                                    THEN 50 ELSE uploadProgress
               /\ UNCHANGED <<error, uploadStatus>>
          ELSE /\ UploadFailed(c, "Failed to upload to S3: read", TRUE)
               /\ uploadProgress' = uploadProgress
    /\ UNCHANGED <<file, s3Url, outsideUi>>

\* upload_to_s3: a PUT is answered; after the last one handle_upload goes on
\* to setS3Url and setUploadStatus('completed').
PutAnswered(c) ==
    /\ calls[c].pc \in {"simple", "chunks"}
    /\ \E r \in Responses :
          LET total == IF calls[c].pc = "simple" THEN 1
                       ELSE totalChunks(calls[c].f.size)
              i == calls[c].chunk
          IN IF r = "ok"
             THEN /\ uploadProgress' = IF calls[c].pc = "simple" THEN 100
                                       ELSE ChunkProgress(i, total)
                  /\ IF i + 1 < total
                     THEN /\ calls' = [calls EXCEPT ![c].chunk = i + 1]
                          /\ UNCHANGED <<s3Url, uploadStatus, error>>
                     ELSE /\ calls' = [calls EXCEPT ![c].chunk = i + 1,
                                                    ![c].pc = "done",
                                                    ![c].uploadOk = TRUE]
                          /\ s3Url' = calls[c].data.s3_path
                          /\ uploadStatus' = "completed"
                          /\ error' = error
             ELSE /\ UploadFailed(c, "Failed to upload to S3: " \o r, TRUE)
                  /\ UNCHANGED <<uploadProgress, s3Url>>
    /\ UNCHANGED <<file, outsideUi>>

reset_form ==
    /\ uploadStatus = "completed"
    /\ file' = NoFile
    /\ uploadStatus' = "idle"
    /\ s3Url' = ""
    /\ error' = ""
    /\ UNCHANGED <<uploadProgress, calls, outsideUi>>

UiNext ==
    \/ \E f \in UiFiles : handle_file_select(f)
    \/ handle_upload
    \/ \E c \in DOMAIN calls : PresignResolved(c)
    \/ \E c \in DOMAIN calls : PresignRejected(c)
    \/ \E c \in DOMAIN calls : BufferRead(c)
    \/ \E c \in DOMAIN calls : PutAnswered(c)
    \/ reset_form

\* The presigned-URL VideoUpload component under any sequence of user
\* actions and of answers of the backend and of S3.
UiSpec == UiInit /\ [][UiNext]_vars

\* --------------------------- VideoUpload (upload, processing, polling)
MaxSessions == 1

MaxInFlight == 2

\* The files offered to the file input: one that passes validate_video_file
\* and two that do not.
ProcFiles ==
    [null : {FALSE}, size : {1, max_size + 1}, type : {"video/mp4"}]
       \cup [null : {FALSE}, size : {1}, type : {"image/png"}]

\* setInterval(..., 2000)
poll_every == 2000

\* setTimeout(() => clearInterval(poll_interval), 600000)
stop_after == 600000

\* What getVideoStatus resolves with.
StatusResponses ==
    {[status |-> "processing", progress |-> 0, error |-> ""],
     [status |-> "processing", progress |-> 50, error |-> ""],
     [status |-> "completed", progress |-> 100, error |-> ""],
     [status |-> "failed", progress |-> 50, error |-> "Indexing failed"],
     [status |-> "failed", progress |-> 0, error |-> ""]}

\* The messages of the errors upload_to_s3 and processVideo reject with.
UploadErrors == {"Presigned URL not provided", ""}

StopsPolling_OnlyCompleted(st) == st = "completed"

\* The statuses on which the callback calls clearInterval.
StopsPolling(st) == st = "completed" \/ st = "failed"

\* status.error || 'Video processing failed'
FailureText(msg) == IF msg = "" THEN "Video processing failed" ELSE msg

\* Timers fire in the order in which they are due: the interval fires at
\* time t only if the timeout set for stop_after has not been due before.
TickBeforeStop(t) == t <= stop_after

NoTimer == [state |-> "none", elapsed |-> 0]

NoPolls == [older |-> 0, newer |-> 0]

InFlightPolls(q) == q.older + q.newer

\* The requests in flight once the answer to the k-th of call c, in the
\* order in which they were sent, is the one shown.
AfterShown(c, k) ==
    [d \in DOMAIN pending |->
        IF d < c THEN [older |-> InFlightPolls(pending[d]), newer |-> 0]
        ELSE IF d > c THEN [older |-> 0, newer |-> InFlightPolls(pending[d])]
        ELSE [older |-> k - 1, newer |-> InFlightPolls(pending[c]) - k]]

\* The requests in flight once no answer is shown.
AfterCleared ==
    [d \in DOMAIN pending |->
        [older |-> 0, newer |-> InFlightPolls(pending[d])]]

ProcInit ==
    /\ BackendIdle
    /\ FnIdle
    /\ UiIdle
    /\ ShellIdle
    /\ videoId = ""
    /\ processingProgress = 0
    /\ processingStatus = NoStatus
    /\ credentials \in BOOLEAN
    /\ intervals = <<>>
    /\ pending = <<>>
    /\ lastPoll = "none"

\* handle_upload up to its first await.
handle_upload_processing ==
    /\ IdleViewRendered(uploadStatus)
    /\ ~file.null
    /\ Len(calls) < MaxSessions
    /\ IF ~credentials
       THEN /\ error' = "AWS credentials not configured. Please set environment variables."
            /\ UNCHANGED <<uploadStatus, calls, intervals, pending>>
       ELSE /\ uploadStatus' = "uploading"
            /\ error' = ""
            /\ calls' = Append(calls, [pc |-> "s3"])
            /\ intervals' = Append(intervals, NoTimer)
            /\ pending' = Append(pending, NoPolls)
    /\ UNCHANGED <<file, uploadProgress, s3Url, videoId, processingProgress,
                   processingStatus, credentials, lastPoll, outsideProc>>

\* The progress callback handed to upload_to_s3.
S3Progress(c) ==
    /\ calls[c].pc = "s3"
    /\ \E p \in {50, 100} : uploadProgress' = p
    /\ UNCHANGED <<file, uploadStatus, s3Url, error, calls, procVars,
                   outsideProc>>

\* The catch block of handle_upload.
ProcessingFailed(c, msg) ==
    /\ error' = ErrorText(msg)
    /\ uploadStatus' = "error"
    /\ calls' = [calls EXCEPT ![c].pc = "failed"]

\* upload_to_s3 resolved: setS3Url, setUploadStatus('processing').
S3Resolved(c) ==
    /\ calls[c].pc = "s3"
    /\ s3Url' = "s3://videos/clip.mp4"
    /\ uploadStatus' = "processing"
    /\ calls' = [calls EXCEPT ![c].pc = "process"]
    /\ UNCHANGED <<file, uploadProgress, error, procVars, outsideProc>>

S3Rejected(c) ==
    /\ calls[c].pc = "s3"
    /\ \E msg \in UploadErrors : ProcessingFailed(c, msg)
    /\ UNCHANGED <<file, uploadProgress, s3Url, procVars, outsideProc>>

\* processVideo resolved: setVideoId and poll_processing_status, which sets
\* the interval and the timeout.
ProcessResolved(c) ==
    /\ calls[c].pc = "process"
    /\ videoId' = "video-" \o ToString(c)
    /\ calls' = [calls EXCEPT ![c].pc = "polling"]
    /\ intervals' = [intervals EXCEPT ![c] = [state |-> "on", elapsed |-> 0]]
    /\ UNCHANGED <<file, uploadProgress, uploadStatus, s3Url, error,
                   processingProgress, processingStatus, credentials, pending,
                   lastPoll, outsideProc>>

ProcessRejected(c) ==
    /\ calls[c].pc = "process"
    /\ \E msg \in UploadErrors : ProcessingFailed(c, msg)
    /\ UNCHANGED <<file, uploadProgress, s3Url, procVars, outsideProc>>

\* The interval fires: the callback runs up to await getVideoStatus.
Tick(c) ==
    /\ intervals[c].state = "on"
    /\ TickBeforeStop(intervals[c].elapsed + poll_every)
    /\ InFlightPolls(pending[c]) < MaxInFlight
    /\ intervals' = [intervals EXCEPT ![c].elapsed = @ + poll_every]
    /\ pending' = [pending EXCEPT ![c].newer = @ + 1]
    /\ UNCHANGED <<uiVars, videoId, processingProgress, processingStatus,
                   credentials, lastPoll, outsideProc>>

\* The timeout fires, once no firing of the interval is due before it. The
\* timeout of an interval that is already cleared changes nothing.
StopTimer(c) ==
    /\ intervals[c].state = "on"
    /\ stop_after <= intervals[c].elapsed + poll_every
    /\ intervals' = [intervals EXCEPT ![c] = [state |-> "cleared", elapsed |-> 0]]
    /\ UNCHANGED <<uiVars, videoId, processingProgress, processingStatus,
                   credentials, pending, lastPoll, outsideProc>>

\* getVideoStatus resolved: the rest of the try block of the callback.
PollResolved(c) ==
    /\ \E r \in StatusResponses, k \in 1..InFlightPolls(pending[c]) :
          /\ pending' = AfterShown(c, k)
          /\ lastPoll' = r.status
          /\ processingStatus' = r
          /\ processingProgress' = IF r.progress # 0 THEN r.progress
                                   ELSE processingProgress
          /\ intervals' = IF StopsPolling(r.status)
                          THEN [intervals EXCEPT
                                   ![c] = [state |-> "cleared", elapsed |-> 0]]
                          ELSE intervals
          /\ uploadStatus' = IF r.status = "completed" THEN "completed"
                             ELSE IF r.status = "failed" THEN "error"
                             ELSE uploadStatus
          /\ error' = IF r.status = "failed" THEN FailureText(r.error)
                      ELSE error
    /\ UNCHANGED <<file, uploadProgress, s3Url, calls, videoId, credentials,
                   outsideProc>>

\* getVideoStatus rejected, or resolved with nothing: the catch block.
PollRejected(c) ==
    /\ \E k \in 1..InFlightPolls(pending[c]) :
          pending' = IF k <= pending[c].older
                     THEN [pending EXCEPT ![c].older = @ - 1]
                     ELSE [pending EXCEPT ![c].newer = @ - 1]
    /\ lastPoll' = "threw"
    /\ UNCHANGED <<uiVars, videoId, processingProgress, processingStatus,
                   credentials, intervals, outsideProc>>

reset_form_processing ==
    /\ uploadStatus = "completed"
    /\ file' = NoFile
    /\ uploadProgress' = 0
    /\ uploadStatus' = "idle"
    /\ s3Url' = ""
    /\ videoId' = ""
    /\ processingProgress' = 0
    /\ error' = ""
    /\ processingStatus' = NoStatus
    /\ pending' = AfterCleared
    /\ UNCHANGED <<calls, credentials, intervals, lastPoll, outsideProc>>

ProcNext ==
    \/ \E f \in ProcFiles : handle_file_select(f)
    \/ handle_upload_processing
    \/ \E c \in DOMAIN calls : S3Progress(c)
    \/ \E c \in DOMAIN calls : S3Resolved(c)
    \/ \E c \in DOMAIN calls : S3Rejected(c)
    \/ \E c \in DOMAIN calls : ProcessResolved(c)
    \/ \E c \in DOMAIN calls : ProcessRejected(c)
    \/ \E c \in DOMAIN calls : Tick(c)
    \/ \E c \in DOMAIN calls : StopTimer(c)
    \/ \E c \in DOMAIN calls : PollResolved(c)
    \/ \E c \in DOMAIN calls : PollRejected(c)
    \/ reset_form_processing

\* The VideoUpload component that polls, under any sequence of user actions,
\* timer firings and answers of S3 and of the backend.
ProcSpec == ProcInit /\ [][ProcNext]_vars

\* ------------------------------------------- loginSession (the session)
MaxEmailLen == 1

MaxTokenLen == 2

\* The characters strings are made of: a plain one, the ones a cookie string
\* is parsed by, and the escape character.
Alphabet == {"a", ";", "=", " ", "%"}

Strings(n) == UNION {[1..k -> Alphabet] : k \in 0..n}

\* A value is truthy unless it is null, undefined or the empty string.
Truthy(v) == v # Null /\ v # <<>>

\* String(v ?? "")
StringOf(v) == IF v = Null THEN <<>> ELSE v

Escape(ch) ==
    CASE ch = ";" -> <<"%", "3", "B">>
      [] ch = "=" -> <<"%", "3", "D">>
      [] ch = " " -> <<"%", "2", "0">>
      [] ch = "%" -> <<"%", "2", "5">>
      [] OTHER -> <<ch>>

encodeURIComponent_Identity(str) == str

RECURSIVE encodeURIComponent(_)
encodeURIComponent(str) ==
    IF str = <<>> THEN <<>>
    ELSE Escape(Head(str)) \o encodeURIComponent(Tail(str))

Unescape(hex) ==
    CASE hex = <<"3", "B">> -> <<";">>
      [] hex = <<"3", "D">> -> <<"=">>
      [] hex = <<"2", "0">> -> <<" ">>
      [] hex = <<"2", "5">> -> <<"%">>
      [] OTHER -> Null

\* decodeURIComponent(str); Null stands for the URIError it throws on a
\* malformed escape.
RECURSIVE decodeURIComponent(_)
decodeURIComponent(str) ==
    IF str = <<>> THEN <<>>
    ELSE IF Head(str) # "%"
         THEN LET rest == decodeURIComponent(Tail(str))
              IN IF rest = Null THEN Null ELSE <<Head(str)>> \o rest
    ELSE IF Len(str) < 3 \/ Unescape(SubSeq(str, 2, 3)) = Null THEN Null
    ELSE LET rest == decodeURIComponent(SubSeq(str, 4, Len(str)))
         IN IF rest = Null THEN Null ELSE Unescape(SubSeq(str, 2, 3)) \o rest

\* String.prototype.trim, for the space character.
RECURSIVE trim(_)
trim(str) ==
    IF str = <<>> THEN <<>>
    ELSE IF Head(str) = " " THEN trim(Tail(str))
    ELSE IF str[Len(str)] = " " THEN trim(SubSeq(str, 1, Len(str) - 1))
    ELSE str

\* The index of the first ";" of str, Len(str) + 1 if there is none.
FirstSemi(str) ==
    IF \E i \in 1..Len(str) : str[i] = ";"
    THEN CHOOSE i \in 1..Len(str) :
            str[i] = ";" /\ \A j \in 1..(i - 1) : str[j] # ";"
    ELSE Len(str) + 1

\* str.split(';')
RECURSIVE split(_)
split(str) ==
    LET i == FirstSemi(str)
    IN IF i > Len(str) THEN <<str>>
       ELSE <<SubSeq(str, 1, i - 1)>> \o split(SubSeq(str, i + 1, Len(str)))

\* Assignment to document.cookie: the browser takes the text before the
\* first ";" as name=value, trims the value, and removes the cookie when the
\* expires attribute lies in the past. A cookie name is one symbol here.
AssignCookie(jar, text) ==
    LET i == FirstSemi(text)
        pair == SubSeq(text, 1, i - 1)
        attrs == SubSeq(text, i + 1, Len(text))
        expired == \E j \in 1..Len(attrs) : attrs[j] = "expires=past"
    IN IF Len(pair) < 2 \/ pair[1] \notin Keys \/ pair[2] # "=" THEN jar
       ELSE IF expired THEN [jar EXCEPT ![pair[1]] = Null]
       ELSE [jar EXCEPT ![pair[1]] = trim(SubSeq(pair, 3, Len(pair)))]

\* Reading document.cookie: "name=value; name=value".
RECURSIVE DocumentCookie(_, _)
DocumentCookie(jar, names) ==
    IF names = <<>> THEN <<>>
    ELSE LET rest == DocumentCookie(jar, Tail(names))
             this == <<Head(names), "=">> \o jar[Head(names)]
         IN IF jar[Head(names)] = Null THEN rest
            ELSE IF rest = <<>> THEN this
            ELSE this \o <<";", " ">> \o rest

KeyOrder == <<STORAGE_KEY, EMAIL_KEY, TOKEN_KEY>>

\* setCookie(name, value, days)
setCookie(jar, name, value) ==
    AssignCookie(jar, <<name, "=">> \o encodeURIComponent(value)
                      \o <<";", " ", "expires=future", ";", " ", "path=/",
                           ";", " ", "SameSite=Strict">>)

\* The loop of getCookie over the cookies from position i on.
RECURSIVE FindCookie(_, _, _)
FindCookie(cookies, name, i) ==
    IF i > Len(cookies) THEN Null
    ELSE LET cookie == trim(cookies[i])
         IN IF Len(cookie) >= 2 /\ cookie[1] = name /\ cookie[2] = "="
            THEN decodeURIComponent(SubSeq(cookie, 3, Len(cookie)))
            ELSE FindCookie(cookies, name, i + 1)

\* getCookie(name)
getCookie(jar, name) == FindCookie(split(DocumentCookie(jar, KeyOrder)), name, 1)

\* deleteCookie(name)
deleteCookie(jar, name) ==
    AssignCookie(jar, <<name, "=", ";", " ", "expires=past", ";", " ",
                        "path=/", ";", " ", "SameSite=Strict">>)

\* The three operations of the store behind the session: cookies in
\* loginSession.js, sessionStorage in its other version.
getItem(kind, jar, name) ==
    IF kind = "cookie" THEN getCookie(jar, name) ELSE jar[name]

setItem(kind, jar, name, value) ==
    IF kind = "cookie" THEN setCookie(jar, name, value)
    ELSE [jar EXCEPT ![name] = value]

removeItem(kind, jar, name) ==
    IF kind = "cookie" THEN deleteCookie(jar, name)
    ELSE [jar EXCEPT ![name] = Null]

isLoggedIn_FlagOnly(kind, jar) == getItem(kind, jar, STORAGE_KEY) = <<"1">>

\* isLoggedIn()
isLoggedIn(kind, jar) ==
    /\ getItem(kind, jar, STORAGE_KEY) = <<"1">>
    /\ getItem(kind, jar, EMAIL_KEY) # Null
    /\ Truthy(getItem(kind, jar, TOKEN_KEY))

\* getLoggedInEmail()
getLoggedInEmail(kind, jar) ==
    IF Truthy(getItem(kind, jar, EMAIL_KEY))
    THEN getItem(kind, jar, EMAIL_KEY) ELSE <<>>

\* getAccessToken()
getAccessToken(kind, jar) ==
    IF Truthy(getItem(kind, jar, TOKEN_KEY))
    THEN getItem(kind, jar, TOKEN_KEY) ELSE <<>>

\* The store after setLoggedIn(email, accessToken).
AfterSetLoggedIn(kind, jar, email, accessToken) ==
    LET j1 == setItem(kind, jar, STORAGE_KEY, <<"1">>)
        j2 == setItem(kind, j1, EMAIL_KEY, StringOf(email))
    IN IF Truthy(accessToken)
       THEN setItem(kind, j2, TOKEN_KEY, StringOf(accessToken))
       ELSE removeItem(kind, j2, TOKEN_KEY)

\* The store after logout().
AfterLogout(kind, jar) ==
    removeItem(kind, removeItem(kind, removeItem(kind, jar, STORAGE_KEY),
                                EMAIL_KEY), TOKEN_KEY)

Emails == Strings(MaxEmailLen) \cup {Null}

Tokens == Strings(MaxTokenLen) \cup {Null}

SessionInit ==
    /\ BackendIdle
    /\ FnIdle
    /\ UiIdle
    /\ ProcIdle
    /\ AppIdle
    /\ storeKind \in {"cookie", "sessionStorage"}
    /\ store = EmptyStore
    /\ lastCall = NoCall

setLoggedIn(email, accessToken) ==
    /\ store' = AfterSetLoggedIn(storeKind, store, email, accessToken)
    /\ lastCall' = [op |-> "setLoggedIn", email |-> email, token |-> accessToken]
    /\ UNCHANGED <<storeKind, outsideSess>>

logout ==
    /\ store' = AfterLogout(storeKind, store)
    /\ lastCall' = [op |-> "logout", email |-> Null, token |-> Null]
    /\ UNCHANGED <<storeKind, outsideSess>>

SessionNext ==
    \/ \E email \in Emails, accessToken \in Tokens : setLoggedIn(email, accessToken)
    \/ logout

\* Any sequence of calls of setLoggedIn and logout, on either store.
SessionSpec == SessionInit /\ [][SessionNext]_vars

\* --------------------------- main.jsx, App.jsx, LoginScreen (the shell)
MaxLogins == 2

RedirectCap == 4

Paths == {"/", "/login", "/explore"}

\* What POST /auth/login answers with, as far as LoginRoute reads it.
Names == {Null, <<"a">>}

Users ==
    [user_username : Names, user_email : Names, username : Names,
     email : Names, access_token : {Null, <<>>, <<"a">>, <<";">>}]

\* user?.user?.username || user?.user?.email || user?.username || user?.email
LoginName(user) ==
    IF Truthy(user.user_username) THEN user.user_username
    ELSE IF Truthy(user.user_email) THEN user.user_email
    ELSE IF Truthy(user.username) THEN user.username
    ELSE user.email

ThenRuns(load) == load = "resolved"

CatchRuns_Always(load, chain) == TRUE

\* .then(f).catch(g): g runs when load() rejected; f does not throw, so the
\* promise f returns through is never the one that rejects.
CatchRuns(load, chain) == load = "rejected"

LoginRouteRedirects_FlagOnly(kind, jar) == isLoggedIn_FlagOnly(kind, jar)

\* LoginRoute: if (isLoggedIn()) return <Navigate to="/" replace />
LoginRouteRedirects(kind, jar) == isLoggedIn(kind, jar)

LandingAllowed_FlagOnly(kind, jar) == isLoggedIn_FlagOnly(kind, jar)

\* ProtectedLandingRoute: if (!isLoggedIn()) return <Navigate to="/login" />
LandingAllowed(kind, jar) == isLoggedIn(kind, jar)

\* What a visit starts with: nothing stored, or what an earlier login left.
StoresAtStart(kind) ==
    {EmptyStore, AfterSetLoggedIn(kind, EmptyStore, <<"a">>, <<"a">>)}

AppInit ==
    /\ BackendIdle
    /\ FnIdle
    /\ UiIdle
    /\ ProcIdle
    /\ storeKind \in {"cookie", "sessionStorage"}
    /\ store \in StoresAtStart(storeKind)
    /\ lastCall = NoCall
    /\ boot = [load |-> "pending", chain |-> "pending"]
    /\ renders = 0
    /\ path \in Paths
    /\ screen = "none"
    /\ redirects = 0
    /\ form = NoForm
    /\ logins = <<>>

\* runtimeConfig.load() settles.
LoadSettles ==
    /\ boot.load = "pending"
    /\ \E outcome \in {"resolved", "rejected"} :
          boot' = [boot EXCEPT !.load = outcome]
    /\ UNCHANGED <<renders, path, screen, redirects, form, logins, sessVars,
                   outsideApp>>

\* The callback given to then: createRoot(...).render(...).
ThenCallback ==
    /\ boot.chain = "pending"
    /\ ThenRuns(boot.load)
    /\ renders' = renders + 1
    /\ screen' = "pending"
    /\ boot' = [boot EXCEPT !.chain = "then-done"]
    /\ UNCHANGED <<path, redirects, form, logins, sessVars, outsideApp>>

\* The callback given to catch, or the chain settling without it.
CatchCallback ==
    /\ \/ boot.chain = "pending" /\ boot.load = "rejected"
       \/ boot.chain = "then-done"
    /\ IF CatchRuns(boot.load, boot.chain)
       THEN renders' = renders + 1 /\ screen' = "pending"
       ELSE UNCHANGED <<renders, screen>>
    /\ boot' = [boot EXCEPT !.chain = "settled"]
    /\ UNCHANGED <<path, redirects, form, logins, sessVars, outsideApp>>

\* LoginScreen is unmounted: its state is gone, and what its requests still
\* do to it is lost.
Unmounted(reqs) == [i \in DOMAIN reqs |-> [reqs[i] EXCEPT !.live = FALSE]]

\* <Routes> renders the element of the route that matches the location.
RouteRender ==
    /\ screen = "pending"
    /\ renders > 0
    /\ LET to == IF path = "/login"
                 THEN IF LoginRouteRedirects(storeKind, store) THEN "/" ELSE "stay"
                 ELSE IF path = "/"
                 THEN IF LandingAllowed(storeKind, store) THEN "stay" ELSE "/login"
                 ELSE "/"
       IN IF to = "stay"
          THEN /\ screen' = IF path = "/login" THEN "login" ELSE "landing"
               /\ UNCHANGED <<path, redirects>>
               /\ IF path = "/login" THEN UNCHANGED <<form, logins>>
                  ELSE form' = NoForm /\ logins' = Unmounted(logins)
          ELSE /\ redirects < RedirectCap
               /\ path' = to
               /\ redirects' = redirects + 1
               /\ screen' = "pending"
               /\ form' = NoForm
               /\ logins' = Unmounted(logins)
    /\ UNCHANGED <<boot, renders, sessVars, outsideApp>>

\* The user goes back or forward in the history to some path.
UserNavigates(p) ==
    /\ screen \in {"login", "landing"}
    /\ path' = p
    /\ redirects' = 0
    /\ screen' = "pending"
    /\ UNCHANGED <<boot, renders, form, logins, sessVars, outsideApp>>

\* LoginScreen: onSubmit up to await loginBackendUser, or to the end when
\* the username is empty.
Submit(valid) ==
    /\ screen = "login"
    /\ ~form.isSubmitting
    /\ Len(logins) < MaxLogins
    /\ IF valid
       THEN /\ form' = [isSubmitting |-> TRUE, error |-> ""]
            /\ logins' = Append(logins, [live |-> TRUE])
       ELSE /\ form' = [isSubmitting |-> FALSE, error |-> "Username is required."]
            /\ logins' = logins
    /\ UNCHANGED <<boot, renders, path, screen, redirects, sessVars, outsideApp>>

Without(reqs, i) == SubSeq(reqs, 1, i - 1) \o SubSeq(reqs, i + 1, Len(reqs))

\* loginBackendUser resolved: onContinue(user), that is setLoggedIn and
\* navigate('/', { replace: true }), then setIsSubmitting(false).
LoginResolved(i) ==
    /\ \E user \in Users :
          /\ store' = AfterSetLoggedIn(storeKind, store, LoginName(user),
                                       user.access_token)
          /\ lastCall' = [op |-> "setLoggedIn", email |-> LoginName(user),
                          token |-> user.access_token]
    /\ path' = "/"
    /\ redirects' = 0
    /\ screen' = "pending"
    /\ form' = IF logins[i].live THEN [form EXCEPT !.isSubmitting = FALSE]
               ELSE form
    /\ logins' = Without(logins, i)
    /\ UNCHANGED <<boot, renders, storeKind, outsideApp>>

\* loginBackendUser rejected: setError, setIsSubmitting(false).
LoginRejected(i) ==
    /\ form' = IF logins[i].live
               THEN [isSubmitting |-> FALSE, error |-> "Login request failed."]
               ELSE form
    /\ logins' = Without(logins, i)
    /\ UNCHANGED <<boot, renders, path, screen, redirects, sessVars, outsideApp>>

\* ProtectedLandingRoute: handleLogout.
handleLogout ==
    /\ screen = "landing"
    /\ store' = AfterLogout(storeKind, store)
    /\ lastCall' = [op |-> "logout", email |-> Null, token |-> Null]
    /\ path' = "/login"
    /\ redirects' = 0
    /\ screen' = "pending"
    /\ UNCHANGED <<boot, renders, form, logins, storeKind, outsideApp>>

AppNext ==
    \/ LoadSettles
    \/ ThenCallback
    \/ CatchCallback
    \/ RouteRender
    \/ \E p \in Paths : UserNavigates(p)
    \/ \E valid \in BOOLEAN : Submit(valid)
    \/ \E i \in DOMAIN logins : LoginResolved(i)
    \/ \E i \in DOMAIN logins : LoginRejected(i)
    \/ handleLogout

\* One visit of the application: start-up, then any sequence of logins,
\* logouts and navigations.
AppSpec == AppInit /\ [][AppNext]_vars

TypeOK ==
    /\ intent \in Intents
    /\ exists \in BOOLEAN
    /\ bucket \subseteq DOMAIN catalog
    /\ elapsed \in 0..deadline
    /\ pc \in {"start", "list", "delete", "report", "done", "killed"}
    /\ phase \in Phases
    /\ page \subseteq bucket
    /\ Len(signals) <= 1

\* ---------------------------------------------------------------- claims
Ended == pc \in {"done", "killed"}

Calls == nList["A"] + nList["B"] + nDel["A"] + nDel["B"]

Reported(st) == Len(signals) = 1 /\ signals[1].status = st

\* C1: every invocation produces exactly one CompletionSignal: never more
\* than one in any state, and exactly one once the invocation has ended.
C1_ExactlyOneSignal ==
    /\ Len(signals) <= 1
    /\ Ended => Len(signals) = 1

\* C2: a Create or Update request is answered with SUCCESS at once and
\* makes no gateway call; a list or delete call has been issued only if the
\* intent is Delete.
C2_OnlyDeleteDrains ==
    /\ Calls > 0 => intent = "Delete"
    /\ (intent # "Delete" /\ ~faulted) =>
          /\ pc \in {"start", "done"}
          /\ Calls = 0 /\ elapsed = 0 /\ bucket = startBucket
          /\ pc = "done" => Reported("SUCCESS") /\ signals[1].reason = "no-action"

C2_Witness ==
    /\ intent = "Update" /\ pc = "done" /\ ~faulted
    /\ Reported("SUCCESS") /\ bucket # {}

\* C3: with no fault and enough budget, a Delete on a target holding N
\* versioned entries and M plain objects deletes exactly N + M entries,
\* reports SUCCESS, and a later enumeration of either kind returns nothing.
C3_DrainsEverything ==
    (pc = "done" /\ intent = "Delete" /\ exists /\ ~faulted /\ failures = {}) =>
        /\ deleted = Cardinality(Listing(startBucket, "A"))
                     + Cardinality(Listing(startBucket, "B"))
        /\ Reported("SUCCESS")
        /\ signals[1].deleted = deleted
        /\ PageEntries(bucket, "A", NoToken) = {}
        /\ PageEntries(bucket, "B", NoToken) = {}
        /\ bucket = {}

C3_Witness ==
    /\ pc = "done" /\ intent = "Delete" /\ exists /\ ~faulted /\ failures = {}
    /\ Listing(startBucket, "A") # {} /\ Listing(startBucket, "B") # {}
    /\ deleted = MaxEntries /\ nDel["A"] > 0 /\ nDel["B"] > 0

\* C4: when the deadline lets only some of the needed batches run, the
\* invocation still ends with a signal, FAILED with reason "incomplete", and
\* is never ended by the timeout without one.
C4_BudgetStopIsReported ==
    (Ended /\ intent = "Delete" /\ exists /\ ~faulted /\ failures = {}
       /\ bucket # {}) =>
        /\ pc = "done"
        /\ Reported("FAILED")
        /\ signals[1].reason = "incomplete"

\* C5: an unexpected fault raised before the reporter is answered with one
\* FAILED signal that carries the fault description; the invocation neither
\* reports SUCCESS nor ends without a signal.
C5_FaultIsReported ==
    faulted =>
        /\ pc = "done"
        /\ Reported("FAILED")
        /\ signals[1].reason \in Faults

C5_Witness ==
    /\ faulted /\ pc = "done" /\ nDel["A"] > 0 /\ bucket # {}
    /\ Reported("FAILED") /\ signals[1].reason = "InternalError"

\* C6: a Delete on a target that does not exist reports SUCCESS with zero
\* deletions and no failure, and issues no delete call.
C6_AbsentTargetSucceeds ==
    (intent = "Delete" /\ ~exists /\ ~faulted) =>
        /\ pc # "killed"
        /\ nDel["A"] = 0 /\ nDel["B"] = 0
        /\ deleted = 0 /\ failures = {}
        /\ pc = "done" =>
              /\ Reported("SUCCESS")
              /\ signals[1].deleted = 0 /\ signals[1].failed = 0

C6_Witness ==
    /\ intent = "Delete" /\ ~exists /\ ~faulted /\ pc = "done"
    /\ Reported("SUCCESS") /\ nList["A"] = 1

\* C7: keys that fail in a bulk delete do not abort the drain: when it has
\* reported, every key that did not fail is gone from the target and the one
\* signal is FAILED and cites the number of failed keys.
C7_PartialFailureAggregated ==
    (pc = "done" /\ intent = "Delete" /\ ~faulted /\ failures # {}) =>
        /\ Reported("FAILED")
        /\ signals[1].reason = "keys-failed"
        /\ signals[1].failed = Cardinality(failures)
        /\ bucket = failures
        /\ deleted = Cardinality(startBucket \ failures)
        /\ ended["A"] /\ ended["B"]

C7_Witness ==
    /\ pc = "done" /\ intent = "Delete" /\ ~faulted
    /\ Cardinality(failures) = 1 /\ deleted = MaxEntries - 1
    /\ 1 \in failures /\ nDel["A"] + nDel["B"] >= 2

\* C8: re-invoked after every FAILED signal, with every budget allowing at
\* least one batch and no fault, the target is eventually empty and an
\* invocation reports SUCCESS.
C8_EventuallyDrained ==
    (intent = "Delete" /\ exists /\ deadline >= 2) =>
        <>(\/ bucket = {} /\ pc = "done" /\ Reported("SUCCESS")
           \/ faulted
           \/ failures # {})

\* C9: in each phase the cursor returns every entry exactly once, resumes
\* each list call after the token of the previous page, and the phase ends
\* exactly when a page arrives without a continuation token.
C9_State ==
    /\ \A i \in DOMAIN visits : visits[i] <= 1
    /\ \A p \in Phases :
          ended[p] => \A i \in Listing(startBucket, p) : visits[i] = 1
    /\ (pc = "list" /\ exists) =>
          {i \in Listing(startBucket, phase) : visits[i] > 0}
             = {i \in Listing(startBucket, phase) : i <= token}
    /\ pc = "report" => ended["A"] /\ ended["B"]
    /\ phase = "B" => ended["A"]

C9_Step ==
    /\ \A p \in Phases : nList'[p] > nList[p] => ~ended[p]
    /\ (pc \in {"list", "delete"} /\ pc' \in {"list", "delete"} /\ phase' # phase)
          => (phase = "A" /\ ended'["A"] /\ token' = NoToken)
    /\ (pc \in {"list", "delete"} /\ pc' = "list" /\ phase' = phase)
          => ~ended'[phase]

C9_PaginationExactlyOnce == []C9_State /\ [][C9_Step]_vars

C9_Witness ==
    /\ Cardinality(Listing(startBucket, "A")) > PageSize
    /\ nList["A"] = 2 /\ ended["A"] /\ failures # {}
    /\ \A i \in Listing(startBucket, "A") : visits[i] = 1

\* C10: phases are never interleaved: a Phase B call is issued only after
\* Phase A's enumeration has ended, and no Phase A call after Phase B began.
C10_Step ==
    /\ (nList'["B"] > nList["B"] \/ nDel'["B"] > nDel["B"]) => ended["A"]
    /\ (nList'["A"] > nList["A"] \/ nDel'["A"] > nDel["A"]) =>
          nList["B"] = 0 /\ nDel["B"] = 0

C10_PhasesNotInterleaved == [][C10_Step]_vars

C10_Witness ==
    /\ nList["A"] = 1 /\ nDel["A"] = 1 /\ nList["B"] = 1 /\ nDel["B"] = 1
    /\ ended["A"] /\ bucket = {}

Ceil(a, b) == (a + b - 1) \div b

C12_SecondDrainIsNoOp ==
    (invocation >= 2 /\ prev = "SUCCESS" /\ intent = "Delete") =>
        /\ pc # "killed"
        /\ deleted = 0 /\ failures = {}
        /\ nDel["A"] = 0 /\ nDel["B"] = 0
        /\ (pc = "done" /\ ~faulted) =>
              Reported("SUCCESS") /\ signals[1].deleted = 0

C12_Witness ==
    /\ invocation = 2 /\ prev = "SUCCESS" /\ intent = "Delete" /\ exists
    /\ pc = "done" /\ Reported("SUCCESS") /\ signals[1].deleted = 0
    /\ Listing(DOMAIN catalog, "A") # {} /\ Listing(DOMAIN catalog, "B") # {}
    /\ nList["A"] = 1 /\ nList["B"] = 1

\* C13: a batch that meets transient errors is attempted at most a fixed
\* number of times; when the attempts are used up its keys are recorded as
\* failures and the drain goes on without a signal being sent; a key that
\* fails with permission-denied is recorded on that attempt and is in no
\* later delete call.
C13_State ==
    /\ attempts < MaxAttempts
    /\ pc = "delete" => page \cap failures = {}

C13_Step ==
    /\ (retries' > retries /\ attempts' = 0) =>
          /\ attempts = MaxAttempts - 1
          /\ page \subseteq failures'
          /\ pc' \in {"list", "report"}
          /\ signals' = signals
    /\ (nDel' # nDel /\ retries' = retries /\ pc = "delete") =>
          /\ page \subseteq (bucket \ bucket') \cup failures'
          /\ page' = {}

C13_BoundedRetry == []C13_State /\ [][C13_Step]_vars

C13_Witness ==
    /\ retries = MaxAttempts /\ failures # {} /\ pc = "delete" /\ attempts = 0
    /\ nDel["A"] = MaxAttempts

\* C14: a permission error on a list call fails the invocation: FAILED is
\* sent once, and no list or delete call is issued after it.
C14_State ==
    listDenied =>
        /\ pc = "done"
        /\ Reported("FAILED")
        /\ signals[1].reason = "AccessDenied"

C14_Step ==
    listDenied =>
        \A p \in Phases : nList'[p] <= nList[p] /\ nDel'[p] <= nDel[p]

C14_ListDeniedAborts == []C14_State /\ [][C14_Step]_vars

C14_Witness ==
    /\ listDenied /\ pc = "done" /\ nList["A"] = 2 /\ nDel["A"] = 1
    /\ bucket # {} /\ Reported("FAILED")

\* C15: every drain whose Phase A completed runs Phase B, also when Phase A
\* deleted every entry and when the target holds only versioned entries.
C15_PhaseBAlwaysRuns ==
    /\ (pc = "done" /\ Len(signals) = 1
          /\ signals[1].reason \in {"emptied", "keys-failed"}) =>
          nList["B"] >= 1 /\ ended["B"]
    /\ pc = "report" => nList["B"] >= 1
    /\ (ended["A"] /\ pc = "list") => phase = "B"

C15_Witness ==
    /\ pc = "done" /\ Reported("SUCCESS") /\ signals[1].reason = "emptied"
    /\ Listing(startBucket, "A") # {} /\ Listing(startBucket, "B") = {}
    /\ nList["B"] = 1 /\ nDel["B"] = 0 /\ deleted = Cardinality(startBucket)

C17_ValidateVideoFile ==
    validation # NotValidated =>
        /\ validation.valid <=>
              /\ ~ufile.null
              /\ ufile.size <= 524288000
              /\ ufile.type \in {"video/mp4", "video/webm", "video/ogg",
                                 "video/quicktime"}
        /\ ufile.null => validation.error = "No file selected"
        /\ (~ufile.null /\ ufile.size > 524288000) =>
              validation.error = "File size exceeds 500MB limit"
        /\ (~ufile.null /\ ufile.size <= 524288000 /\ ~validation.valid) =>
              validation.error
                 = "Invalid file type. Please upload MP4, WebM, OGG, or MOV"

C17_Witness ==
    /\ validation.valid
    /\ ufile.size = 524288000 /\ ufile.type = "video/quicktime"

\* C18: upload_to_s3 sends one PUT for a file smaller than 100MB; for a
\* file of 100MB or more the PUTs are consecutive ranges of at most 5MB that
\* start at 0 and, when it returns, end at file.size; no PUT follows a
\* response that is not ok; it returns s3_path only when every PUT was ok,
\* and throws before any PUT when presigned_url is missing.
C18_UploadToS3 ==
    /\ \A k \in 1..Len(puts) :
          /\ puts[k].start < puts[k].end \/ ufile.size = 0
          /\ puts[k].end <= ufile.size
          /\ k < Len(puts) => puts[k].resp = "ok"
    /\ ~ufile.null /\ ufile.size < 104857600 =>
          /\ Len(puts) <= 1
          /\ \A k \in 1..Len(puts) :
                puts[k].start = 0 /\ puts[k].end = ufile.size /\ ~puts[k].ranged
    /\ ~ufile.null /\ ufile.size >= 104857600 =>
          \A k \in 1..Len(puts) :
             /\ puts[k].ranged
             /\ puts[k].start = (IF k = 1 THEN 0 ELSE puts[k - 1].end)
             /\ puts[k].end - puts[k].start <= 5242880
    /\ upc = "returned" =>
          /\ uresult = presigned.s3_path
          /\ Len(puts) >= 1
          /\ \A k \in 1..Len(puts) : puts[k].resp = "ok"
          /\ puts[Len(puts)].end = ufile.size
    /\ (Len(puts) >= 1 /\ puts[Len(puts)].resp # "ok") => upc = "thrown"
    /\ ~presigned.url =>
          /\ puts = <<>>
          /\ upc \in {"idle", "thrown"}
          /\ upc = "thrown" => uresult = "Presigned URL not provided"

C18_Witness ==
    /\ upc = "returned" /\ ufile.size = 104857601 /\ Len(puts) = 21
    /\ puts[21].start = 104857600 /\ puts[21].end = 104857601

C19_State ==
    /\ uploadStatus \in {"idle", "uploading", "completed", "error"}
    /\ Cardinality(InFlight) <= 1
    /\ InFlight # {} => uploadStatus = "uploading"

C19_Step ==
    /\ (uploadStatus' = "completed" /\ uploadStatus # "completed") =>
          /\ uploadStatus = "uploading"
          /\ \E c \in DOMAIN calls :
                /\ calls[c].pc # "done" /\ calls'[c].pc = "done"
                /\ calls'[c].presignOk /\ calls'[c].uploadOk
    /\ \A c \in DOMAIN calls :
          (calls[c].pc # "failed" /\ calls'[c].pc = "failed") =>
             /\ uploadStatus = "uploading"
             /\ uploadStatus' = "error"
             /\ error' # ""

\* C19: in the presigned-URL VideoUpload component uploadStatus is one of
\* idle, uploading, completed, error; it becomes completed only from
\* uploading, by a call of handle_upload whose getPresignedUploadUrl and
\* upload_to_s3 both succeeded; a call that fails moves uploading to error
\* with a non-empty error; and at most one call of handle_upload is in
\* flight at any time.
C19_UploadStatusMachine == [](C19_State) /\ [][C19_Step]_vars

C19_Witness ==
    /\ Len(calls) = 2
    /\ calls[1].pc = "failed" /\ calls[1].presignOk
    /\ calls[2].pc = "done" /\ calls[2].f.size = simple_limit
    /\ uploadStatus = "completed"

C20_Step ==
    \A c \in DOMAIN pending :
       /\ InFlightPolls(pending'[c]) < InFlightPolls(pending[c]) =>
             /\ lastPoll' = "completed" =>
                   intervals'[c].state = "cleared" /\ uploadStatus' = "completed"
             /\ lastPoll' = "failed" =>
                   /\ intervals'[c].state = "cleared"
                   /\ uploadStatus' = "error"
                   /\ error' # ""
             /\ lastPoll' = "threw" => intervals'[c] = intervals[c]
       /\ InFlightPolls(pending'[c]) > InFlightPolls(pending[c]) =>
             /\ intervals[c].state = "on"
             /\ intervals'[c].elapsed = intervals[c].elapsed + 2000
             /\ intervals'[c].elapsed <= 600000
       /\ intervals[c].state = "cleared" =>
             /\ intervals'[c].state = "cleared"
             /\ InFlightPolls(pending'[c]) <= InFlightPolls(pending[c])

\* C20: in the VideoUpload component that polls, a poll that returns
\* completed or failed clears the interval at once and sets uploadStatus to
\* completed, or to error with a non-empty error; a poll that throws leaves
\* the interval running; polls start 2 seconds apart, none later than 10
\* minutes after polling began, and none after the interval was cleared.
C20_PollingStops == [][C20_Step]_vars

C20_Witness ==
    /\ Len(calls) = 1
    /\ intervals[1].state = "cleared"
    /\ lastPoll = "completed" /\ uploadStatus = "completed"
    /\ processingStatus.status = "completed"

\* C21: the application is rendered exactly once, whether
\* runtimeConfig.load() resolves or rejects: never twice, and once the
\* promise chain has settled it has been rendered.
C21_RenderedExactlyOnce ==
    /\ renders <= 1
    /\ boot.chain = "settled" => renders = 1
    /\ boot.chain = "then-done" => renders = 1

C21_Witness ==
    /\ boot.load = "rejected" /\ boot.chain = "settled"
    /\ renders = 1 /\ screen = "login"

\* C22: after any sequence of calls of setLoggedIn and logout, isLoggedIn()
\* is true exactly when the last call was setLoggedIn with a truthy access
\* token; setLoggedIn without a token leaves no token stored; after logout()
\* getLoggedInEmail() and getAccessToken() return the empty string; and after
\* setLoggedIn both return what was passed.
C22_SessionFollowsLastCall ==
    lastCall.op # "none" =>
        /\ isLoggedIn(storeKind, store) <=>
              /\ lastCall.op = "setLoggedIn"
              /\ lastCall.token # Null /\ lastCall.token # <<>>
        /\ (lastCall.op = "setLoggedIn"
              /\ (lastCall.token = Null \/ lastCall.token = <<>>)) =>
              /\ store[TOKEN_KEY] = Null
              /\ getAccessToken(storeKind, store) = <<>>
        /\ lastCall.op = "logout" =>
              /\ getLoggedInEmail(storeKind, store) = <<>>
              /\ getAccessToken(storeKind, store) = <<>>
        /\ (lastCall.op = "setLoggedIn" /\ lastCall.token # Null) =>
              getAccessToken(storeKind, store) = lastCall.token
        /\ (lastCall.op = "setLoggedIn" /\ lastCall.email # Null) =>
              getLoggedInEmail(storeKind, store) = lastCall.email

C22_Witness ==
    /\ storeKind = "cookie"
    /\ lastCall.op = "setLoggedIn" /\ lastCall.email = Null
    /\ lastCall.token = <<";", " ">>
    /\ store[TOKEN_KEY] = <<"%", "3", "B", "%", "2", "0">>
    /\ isLoggedIn(storeKind, store)

C23_State ==
    /\ screen = "landing" => isLoggedIn(storeKind, store)
    /\ store[TOKEN_KEY] = Null => screen \in {"none", "pending", "login"}
    /\ lastCall.op = "logout" => screen # "landing"
    /\ (lastCall.op = "setLoggedIn"
          /\ (lastCall.token = Null \/ lastCall.token = <<>>)) =>
          screen # "landing"

C23_Step ==
    (screen # "landing" /\ screen' = "landing") =>
        /\ path' = "/"
        /\ store'[STORAGE_KEY] # Null
        /\ store'[EMAIL_KEY] # Null
        /\ store'[TOKEN_KEY] # Null /\ store'[TOKEN_KEY] # <<>>

\* C23: the landing page is on the screen only while isLoggedIn() is true:
\* whatever the logins, logouts and navigations, it is rendered only at '/'
\* with the flag, the email and a non-empty token stored; with no token
\* stored the router shows the login screen only; and after handleLogout, or
\* a login that stored no token, it is not rendered until a login stores one.
C23_LandingOnlyWhenLoggedIn == [](C23_State) /\ [][C23_Step]_vars

C23_Witness ==
    /\ lastCall.op = "logout" /\ screen = "login" /\ path = "/login"
    /\ store = EmptyStore /\ Len(logins) = 1

C24_State ==
    /\ redirects <= 2
    /\ screen = "landing" => path = "/"
    /\ screen = "login" => path = "/login"
    /\ (screen \in {"login", "landing"} /\ lastCall.op = "setLoggedIn") =>
          (screen = "landing" <=>
              (lastCall.token # Null /\ lastCall.token # <<>>))

C24_Step ==
    /\ (screen = "pending" /\ screen' = "pending" /\ path' # path
          /\ redirects' # 0) =>
          /\ redirects' = redirects + 1
          /\ ~(path = "/login" /\ redirects > 0)
    /\ (screen = "pending" /\ redirects = 2 /\ path' # path) => redirects' = 0

\* C24: redirects settle: the router renders at most two <Navigate>
\* elements after a navigation, never one that leads back from '/login'
\* after it has redirected, and then shows the login screen at '/login' or
\* the landing page at '/'; after a login whose response had no access
\* token it shows the login screen, after one with a token the landing page.
C24_RedirectsSettle == [](C24_State) /\ [][C24_Step]_vars

C24_Witness ==
    /\ redirects = 2 /\ screen = "login"
    /\ lastCall.op = "setLoggedIn" /\ lastCall.token = Null

C25_Step ==
    uploadStatus = "completed" =>
        /\ \/ uploadStatus' = "completed"
           \/ uploadStatus' = "idle" /\ processingStatus' = NoStatus
        /\ \A c \in DOMAIN pending :
              ~ /\ InFlightPolls(pending'[c]) < InFlightPolls(pending[c])
                /\ pending'[c].older < pending[c].older
                /\ processingStatus' # processingStatus

\* C25: in the VideoUpload component that polls, once uploadStatus is
\* completed it stays completed until reset_form sets it to idle, and no
\* answer to a status request sent before the one whose answer is shown
\* replaces the processingStatus shown.
C25_CompletedIsFinal == [][C25_Step]_vars

====
